---- MODULE Spec2Model ----
(***************************************************************************)
(* Wealth Architecture Suite (src/app.py): the numeric engine.             *)
(*                                                                         *)
(*   debt_payoff       lines 61-78    monthly amortisation of a debt list  *)
(*   wealth projection lines 146-154  yearly compounding loop              *)
(*   opportunity_cost  lines 54-59    future value of a monthly amount     *)
(*                                                                         *)
(* Numbers.  The program computes in binary floating point: a result is    *)
(* rounded to the nearest value with a 53-bit mantissa, ties to the even   *)
(* mantissa, and a result that outgrows the range becomes inf and stays    *)
(* inf.  In debt_payoff the model computes the same way on whole numbers,  *)
(* with the mantissa shrunk to MantBits bits and the range to BalCap: a    *)
(* whole number below 2^MantBits is held exactly, a larger one is rounded. *)
(* The debt rates are annual rates whose monthly rate rate/12 is whole.    *)
(* The projection and the annuity are computed in exact fractions.         *)
(***************************************************************************)
EXTENDS Integers, Sequences, FiniteSets, TLC

(***************************************************************************)
(* Program constant and bounds of the model.                               *)
(***************************************************************************)
Ceiling == 1000

MaxBalance == 3

MaxPayment == 3

MantBits == 10

BalCap == 4095

Inf == BalCap + 1

\* Annual debt rates: 0 and 1200 % (monthly rate 0 and 1).
RateSet == {0, 12}

Methods == {"avalanche", "snowball"}

Min(a, b) == IF a <= b THEN a ELSE b

Max(a, b) == IF a >= b THEN a ELSE b

(***************************************************************************)
(* Floating point on whole numbers x >= 0: rounding to MantBits bits, and  *)
(* subtraction and multiplication with rounding and inf.                   *)
(***************************************************************************)
RECURSIVE Pow2(_)
Pow2(k) == IF k = 0 THEN 1 ELSE 2 * Pow2(k - 1)

RECURSIVE BitLen(_)
BitLen(x) == IF x = 0 THEN 0 ELSE 1 + BitLen(x \div 2)

\* The nearest multiple of the spacing q at x, a tie going to the even one.
Round(x) ==
    IF x < Pow2(MantBits) THEN x
    ELSE LET q == Pow2(BitLen(x) - MantBits)
             m == x \div q
             r == x % q
         IN  IF 2 * r < q \/ (2 * r = q /\ m % 2 = 0)
             THEN m * q
             ELSE (m + 1) * q

FSub(a, b) == IF a = Inf THEN Inf ELSE Round(a - b)

FMul(a, f) ==
    IF a = Inf THEN Inf
    ELSE LET r == Round(a * f) IN IF r > BalCap THEN Inf ELSE r

(***************************************************************************)
(* Exact fractions [n, d] in lowest terms, d > 0.                          *)
(***************************************************************************)
Abs(x) == IF x < 0 THEN 0 - x ELSE x

RECURSIVE GCD(_, _)
GCD(a, b) == IF b = 0 THEN a ELSE GCD(b, a % b)

Rat(n, d) ==
    LET g == GCD(Abs(n), Abs(d))
        sgn == IF d < 0 THEN 0 - 1 ELSE 1
    IN  [n |-> sgn * (n \div g), d |-> sgn * (d \div g)]

FromInt(i) == [n |-> i, d |-> 1]

RAdd(a, b) == Rat(a.n * b.d + b.n * a.d, a.d * b.d)

RSub(a, b) == Rat(a.n * b.d - b.n * a.d, a.d * b.d)

RMul(a, b) ==
    LET g1 == GCD(Abs(a.n), b.d)
        g2 == GCD(Abs(b.n), a.d)
    IN  IF a.n = 0 \/ b.n = 0 THEN FromInt(0)
        ELSE Rat((a.n \div g1) * (b.n \div g2), (a.d \div g2) * (b.d \div g1))

RDiv(a, b) == RMul(a, Rat(b.d, b.n))

RECURSIVE RPow(_, _)
RPow(a, k) == IF k = 0 THEN FromInt(1) ELSE RMul(a, RPow(a, k - 1))

(***************************************************************************)
(* State.                                                                  *)
(*   orig             the debt values the caller builds its list from      *)
(*   debts            the caller's list of debt records (the dict objects) *)
(*   monthly_payment, method   the arguments of the call                   *)
(*   order            the local sorted list, as positions in debts: it     *)
(*                    holds the caller's own records, not copies           *)
(*   months, remaining         locals of debt_payoff                       *)
(*   paid             the value of pay for each debt in the current month  *)
(*   pc               "start", "pay", "accrue", "done" ("idle": no call)   *)
(*   before           debts as they were when the call began               *)
(*   start_bal        the balances at the start of the current month       *)
(*   alias            whether the call was given the list object of the    *)
(*                    call before it                                       *)
(*   history          the calls that have returned                         *)
(***************************************************************************)
VARIABLES orig, debts, monthly_payment, method, order, months, remaining,
          paid, pc, before, start_bal, alias, history

debtVars == <<orig, debts, monthly_payment, method, order, months, remaining,
              paid, pc, before, start_bal, alias, history>>

\* The wealth projection (lines 117-154): the sidebar inputs, the values
\* derived from them and the loop's state.
VARIABLES assets, income, expenses, growth, tax, inflation, years,
          real_rate, monthly_surplus, wealth_projection, current_val, ppc

projVars == <<assets, income, expenses, growth, tax, inflation, years,
              real_rate, monthly_surplus, wealth_projection, current_val, ppc>>

\* opportunity_cost (lines 54-59): its arguments and the value it returns.
VARIABLES monthly_amount, annual_rate, opp_years, future_val, opc

oppVars == <<monthly_amount, annual_rate, opp_years, future_val, opc>>

vars == <<debtVars, projVars, oppVars>>

Debt == [balance : 0..MaxBalance, rate : RateSet]

\* Lists of zero, one or two debts.
DebtLists == UNION {[1..n -> Debt] : n \in {0, 1, 2}}

\* A single zero-rate debt that a payment of 1 clears in exactly Ceiling months.
LongLists == {<<[balance |-> Ceiling, rate |-> 0]>>}

\* Lists used with a payment that is zero or negative.
EdgeLists == {ds \in DebtLists : Len(ds) <= 1 /\ \A k \in DOMAIN ds : ds[k].balance <= 1}

\* A balance and payment whose float holds no odd neighbour: Big - 1 is
\* rounded back to Big.
Big == Pow2(MantBits) + 4

\* Two debts, each of balance 1 or Big, used with a payment of Big.
BigLists == [1..2 -> [balance : {1, Big}, rate : RateSet]]

Inputs ==
    {<<ds, p>> : ds \in DebtLists, p \in 1..MaxPayment}
    \cup {<<ds, p>> : ds \in EdgeLists, p \in {-1, 0}}
    \cup {<<ds, 1>> : ds \in LongLists}
    \cup {<<ds, Big>> : ds \in BigLists}

(***************************************************************************)
(* debt_payoff, lines 61-78.                                               *)
(***************************************************************************)
\* line 64: key=lambda x: x["balance"] if method == "snowball" else -x["rate"]
SortKey(d, m) == IF m = "snowball" THEN d.balance ELSE 0 - d.rate

Perms(n) == {p \in [1..n -> 1..n] : \A i, j \in 1..n : i # j => p[i] # p[j]}

\* lines 62-65: sorted() is stable and returns a new list of the same records.
SortedOrder(ds, m) ==
    CHOOSE p \in Perms(Len(ds)) :
        \A i, j \in 1..Len(ds) :
            i < j => \/ SortKey(ds[p[i]], m) < SortKey(ds[p[j]], m)
                     \/ /\ SortKey(ds[p[i]], m) = SortKey(ds[p[j]], m)
                        /\ p[i] < p[j]

AnyPositive(ds) == \E k \in DOMAIN ds : ds[k].balance > 0

AllPositive(ds) == \A k \in DOMAIN ds : ds[k].balance > 0

LoopCondAll(ds, m) == AllPositive(ds) /\ m < Ceiling

LoopCondInclusive(ds, m) == AnyPositive(ds) /\ m <= Ceiling

\* line 67: while any(d["balance"] > 0 for d in debts) and months < 1000
LoopCond(ds, m) == AnyPositive(ds) /\ m < Ceiling

\* line 71: pay = min(remaining, debt["balance"])
PayAmount(rem, bal) == Min(rem, bal)

InterestNone(bal, rate) == bal

\* line 76: debt["balance"] *= (1 + debt["rate"] / 12)
Interest(bal, rate) == FMul(bal, 1 + rate \div 12)

ResortedOrder == SortedOrder(debts, method)

\* line 69: for debt in debts  (the list sorted once at lines 62-65)
AttackOrder == order

\* lines 68-73: the payment loop from position i of the attack order on.
RECURSIVE PayWalk(_, _, _, _, _)
PayWalk(ord, i, rem, ds, pd) ==
    IF i > Len(ord)
    THEN [remaining |-> rem, debts |-> ds, paid |-> pd]
    ELSE LET k == ord[i]
         IN  IF ds[k].balance > 0 /\ rem > 0
             THEN LET pay == PayAmount(rem, ds[k].balance)
                  IN  PayWalk(ord, i + 1, FSub(rem, pay),
                              [ds EXCEPT ![k].balance = FSub(@, pay)],
                              [pd EXCEPT ![k] = pay])
             ELSE PayWalk(ord, i + 1, rem, ds, pd)

\* lines 74-76: the interest loop.
AccrueAll(ds) ==
    [k \in DOMAIN ds |->
        IF ds[k].balance > 0
        THEN [ds[k] EXCEPT !.balance = Interest(@, ds[k].rate)]
        ELSE ds[k]]

Balances(ds) == [k \in DOMAIN ds |-> ds[k].balance]

NoPay(ds) == [k \in DOMAIN ds |-> 0]

DebtStart(inputs, at) ==
    /\ \E inp \in inputs : orig = inp[1] /\ monthly_payment = inp[2]
    /\ debts = orig
    /\ method = "avalanche"
    /\ order = <<>>
    /\ months = 0
    /\ remaining = 0
    /\ paid = NoPay(orig)
    /\ pc = at
    /\ before = orig
    /\ start_bal = Balances(orig)
    /\ alias = FALSE
    /\ history = <<>>

\* lines 61-67: entry of debt_payoff(list, monthly_payment, m) on the list
\* `list`, up to the first evaluation of the while condition; line 78 when
\* the condition is false at once.
Enter(list, m, al) ==
    /\ method' = m
    /\ alias' = al
    /\ before' = list
    /\ order' = SortedOrder(list, m)
    /\ months' = 0
    /\ remaining' = 0
    /\ paid' = NoPay(list)
    /\ start_bal' = Balances(list)
    /\ debts' = list
    /\ IF LoopCond(list, 0)
       THEN pc' = "pay" /\ history' = history
       ELSE /\ pc' = "done"
            /\ history' = Append(history, [method |-> m, months |-> 0, alias |-> al])
    /\ UNCHANGED <<orig, monthly_payment>>

\* The caller builds its list (lines 218-227) and calls debt_payoff.
CallFirst(m) ==
    /\ pc = "start"
    /\ Enter(debts, m, FALSE)
    /\ UNCHANGED <<projVars, oppVars>>

\* The caller calls again with the same list object, payment and strategy.
CallAgain ==
    /\ pc = "done"
    /\ Len(history) = 1
    /\ Enter(debts, method, TRUE)
    /\ UNCHANGED <<projVars, oppVars>>

\* The caller rebuilds the list from the same values and calls with the
\* other strategy.
CallOther ==
    /\ pc = "done"
    /\ Len(history) = 1
    /\ \E m \in Methods \ {method} : Enter(orig, m, FALSE)
    /\ UNCHANGED <<projVars, oppVars>>

\* lines 68-73: one month's payments.
Pay ==
    /\ pc = "pay"
    /\ LET r == PayWalk(AttackOrder, 1, monthly_payment, debts, NoPay(debts))
       IN  /\ debts' = r.debts
           /\ remaining' = r.remaining
           /\ paid' = r.paid
    /\ start_bal' = Balances(debts)
    /\ pc' = "accrue"
    /\ UNCHANGED <<orig, monthly_payment, method, order, months, before, alias,
                   history>>
    /\ UNCHANGED <<projVars, oppVars>>

\* lines 74-78: the month's interest, months += 1, the while condition again
\* and the return.
Accrue ==
    /\ pc = "accrue"
    /\ debts' = AccrueAll(debts)
    /\ months' = months + 1
    /\ IF LoopCond(debts', months')
       THEN pc' = "pay" /\ history' = history
       ELSE /\ pc' = "done"
            /\ history' = Append(history,
                   [method |-> method, months |-> months', alias |-> alias])
    /\ UNCHANGED <<orig, monthly_payment, method, order, remaining, paid,
                   before, start_bal, alias>>
    /\ UNCHANGED <<projVars, oppVars>>

DebtNext ==
    \/ \E m \in Methods : CallFirst(m)
    \/ CallAgain
    \/ CallOther
    \/ Pay
    \/ Accrue

DebtInit == DebtStart(Inputs, "start")

\* The debt simulator at rest, in the specifications of the other parts.
DebtIdle == DebtStart({<<(<<>>), 0>>}, "idle")

(***************************************************************************)
(* The wealth projection, lines 117-154.                                   *)
(***************************************************************************)
MaxAssets == 2

MaxIncome == 2

MaxYears == 3

\* line 138: min_value=1
MinYears == 1

\* lines 131-132: percentages of 0..100, divided by 100.
GrowthSet == {Rat(0, 1), Rat(1, 2), Rat(1, 1)}

TaxSet == {Rat(0, 1), Rat(1, 2)}

\* lines 95-99: the inflation rate of the economic data.
InflationSet == {Rat(0, 1), Rat(1, 4)}

\* line 152: range(years + 1)
LoopCount == years + 1

NextValGrowThenAdd(cv) ==
    RAdd(RMul(cv, RAdd(FromInt(1), real_rate)), FromInt(monthly_surplus * 12))

\* line 154: (current_val + monthly_surplus * 12) * (1 + real_rate)
NextVal(cv) ==
    RMul(RAdd(cv, FromInt(monthly_surplus * 12)), RAdd(FromInt(1), real_rate))

ProjStart(A, I, G, T, F, Y, at) ==
    /\ assets \in A
    /\ income \in I
    /\ expenses \in I
    /\ growth \in G
    /\ tax \in T
    /\ inflation \in F
    /\ years \in Y
    /\ real_rate = FromInt(0)
    /\ monthly_surplus = 0
    /\ wealth_projection = <<>>
    /\ current_val = FromInt(0)
    /\ ppc = at

ProjInit ==
    ProjStart(0..MaxAssets, 0..MaxIncome, GrowthSet, TaxSet, InflationSet,
              MinYears..MaxYears, "inputs")

ProjIdle ==
    ProjStart({0}, {0}, {Rat(0, 1)}, {Rat(0, 1)}, {Rat(0, 1)}, {MinYears}, "idle")

\* lines 146-151: the real rate, the surplus and the loop's initial state.
ProjSetup ==
    /\ ppc = "inputs"
    /\ real_rate' = RSub(RMul(growth, RSub(FromInt(1), tax)), inflation)
    /\ monthly_surplus' = income - expenses
    /\ wealth_projection' = <<>>
    /\ current_val' = FromInt(assets)
    /\ ppc' = "loop"
    /\ UNCHANGED <<assets, income, expenses, growth, tax, inflation, years>>
    /\ UNCHANGED <<debtVars, oppVars>>

\* lines 152-154: one iteration of the loop; the loop ends after LoopCount.
ProjStep ==
    /\ ppc = "loop"
    /\ Len(wealth_projection) < LoopCount
    /\ wealth_projection' = Append(wealth_projection, current_val)
    /\ current_val' = NextVal(current_val)
    /\ ppc' = IF Len(wealth_projection') < LoopCount THEN "loop" ELSE "done"
    /\ UNCHANGED <<assets, income, expenses, growth, tax, inflation, years,
                   real_rate, monthly_surplus>>
    /\ UNCHANGED <<debtVars, oppVars>>

ProjNext == ProjSetup \/ ProjStep

(***************************************************************************)
(* opportunity_cost, lines 54-59.                                          *)
(***************************************************************************)
MaxAmount == 7

\* Annual rates whose monthly rate is 0, 1/2, 1 and 2.
OppRateSet == {0, 6, 12, 24}

OppYearSet == {0, 1}

opportunity_cost_no_minus(amount, rate, yrs) ==
    LET n == yrs * 12
        monthly_rate == RDiv(FromInt(rate), FromInt(12))
    IN  IF monthly_rate = FromInt(0)
        THEN FromInt(amount * n)
        ELSE RDiv(RMul(FromInt(amount), RPow(RAdd(FromInt(1), monthly_rate), n)),
                  monthly_rate)

\* lines 54-59
opportunity_cost(amount, rate, yrs) ==
    LET n == yrs * 12
        monthly_rate == RDiv(FromInt(rate), FromInt(12))
    IN  IF monthly_rate = FromInt(0)
        THEN FromInt(amount * n)
        ELSE RDiv(RMul(FromInt(amount),
                       RSub(RPow(RAdd(FromInt(1), monthly_rate), n), FromInt(1))),
                  monthly_rate)

OppStart(A, R, Y, at) ==
    /\ monthly_amount \in A
    /\ annual_rate \in R
    /\ opp_years \in Y
    /\ future_val = FromInt(0)
    /\ opc = at

OppInit == OppStart(0..MaxAmount, OppRateSet, OppYearSet, "call")

OppIdle == OppStart({0}, {0}, {0}, "idle")

\* lines 202-206: the call of opportunity_cost and its result.
OppCall ==
    /\ opc = "call"
    /\ future_val' = opportunity_cost(monthly_amount, annual_rate, opp_years)
    /\ opc' = "done"
    /\ UNCHANGED <<monthly_amount, annual_rate, opp_years>>
    /\ UNCHANGED <<debtVars, projVars>>

OppNext == OppCall

(***************************************************************************)
(* Specifications: one per part, the other parts at rest.                  *)
(***************************************************************************)
Init == DebtInit /\ ProjIdle /\ OppIdle

Next == DebtNext

Spec == Init /\ [][Next]_vars

ProjSpecInit == DebtIdle /\ ProjInit /\ OppIdle

ProjSpec == ProjSpecInit /\ [][ProjNext]_vars

OppSpecInit == DebtIdle /\ ProjIdle /\ OppInit

OppSpec == OppSpecInit /\ [][OppNext]_vars

(***************************************************************************)
(* Helpers of the properties.                                              *)
(***************************************************************************)
RECURSIVE SumTo(_, _)
SumTo(f, n) == IF n = 0 THEN 0 ELSE f[n] + SumTo(f, n - 1)

\* The total of the payments applied in the current month.
SumPaid == SumTo(paid, Len(paid))

\* The interest the debts of the call's argument accrue in a month:
\* sum of balance * rate/12, here times 12.
RECURSIVE Interest12(_, _)
Interest12(ds, n) ==
    IF n = 0 THEN 0 ELSE ds[n].balance * ds[n].rate + Interest12(ds, n - 1)

\* A debt of balance b that is paid all of p (or nothing, when p <= 0) and
\* then accrues a month's interest is no smaller than before:
\* (b - p) * (1 + rate/12) >= b, as the floats compute it.
NeverShrinks(b, rate, p) ==
    /\ b > Max(p, 0)
    /\ FMul(FSub(b, Max(p, 0)), 1 + rate \div 12) >= b

Last(h) == h[Len(h)]

MonthsOf(m) == (CHOOSE k \in DOMAIN history : history[k].method = m)

(***************************************************************************)
(* C1.  debt_payoff never mutates the caller's debt list: when the call    *)
(* returns every record has the balance and rate it had before the call,   *)
(* and a second call with the same list object, payment and strategy       *)
(* returns the same number of months as the first.                         *)
(***************************************************************************)
C1_NoMutation ==
    /\ pc = "done" => debts = before
    /\ (Len(history) = 2 /\ history[2].alias)
          => history[2].months = history[1].months

(***************************************************************************)
(* C2.  debt_payoff terminates and runs at most Ceiling monthly            *)
(* iterations: months and every returned count stay within 0..Ceiling, a   *)
(* call inside the loop always has a next step, and every step of the loop *)
(* lowers StepsLeft, which is never negative; for zero and negative        *)
(* payments as well.                                                       *)
(***************************************************************************)
\* The steps the loop can still take: two per month up to the ceiling.
StepsLeft == 2 * (Ceiling - months) - (IF pc = "accrue" THEN 1 ELSE 0)

LoopStepLowers ==
    pc \in {"pay", "accrue"} => (StepsLeft' >= 0 /\ StepsLeft' < StepsLeft)

C2_Terminates ==
    /\ [](/\ months \in 0..Ceiling
          /\ \A k \in DOMAIN history : history[k].months \in 0..Ceiling)
    /\ [](pc \in {"pay", "accrue"} => (StepsLeft > 0 /\ ENABLED (Pay \/ Accrue)))
    /\ [][LoopStepLowers]_vars

C2_Witness ==
    pc = "done" /\ monthly_payment < 0 /\ months = Ceiling /\ AnyPositive(debts)

(***************************************************************************)
(* C3 as stated.  Whenever the monthly payment is less than the interest   *)
(* accruing on the portfolio at the start of the run, the call returns     *)
(* Ceiling with at least one debt still positive.                          *)
(***************************************************************************)
C3_BelowInterestHitsCeiling ==
    (pc = "done" /\ 12 * monthly_payment < Interest12(before, Len(before)))
        => (months = Ceiling /\ AnyPositive(debts))

(***************************************************************************)
(* C3 amended.  Whenever some debt of the list would not shrink over a     *)
(* month even if it received the whole payment, the call returns Ceiling   *)
(* with that debt still positive.                                          *)
(***************************************************************************)
C3_NeverShrinkingHitsCeiling ==
    pc = "done" =>
        \A k \in DOMAIN before :
            NeverShrinks(before[k].balance, before[k].rate, monthly_payment)
                => (months = Ceiling /\ debts[k].balance > 0)

C3_Witness ==
    /\ pc = "done" /\ monthly_payment > 0 /\ months = Ceiling
    /\ \E k \in DOMAIN before :
          /\ before[k].balance # Inf
          /\ NeverShrinks(before[k].balance, before[k].rate, monthly_payment)
          /\ debts[k].balance > before[k].balance

(***************************************************************************)
(* C4.  The value returned by a stop at the ceiling with a debt still      *)
(* positive, which is Ceiling, is never the value of a run in which every  *)
(* debt reached zero.                                                      *)
(***************************************************************************)
C4_CeilingDistinct ==
    (pc = "done" /\ ~AnyPositive(debts) /\ AnyPositive(before))
        => months # Ceiling

(***************************************************************************)
(* C7.  The call returns the number of monthly steps it ran, the least m   *)
(* after which no debt is positive, or Ceiling: a month is run only from a *)
(* state with a positive balance and months < Ceiling, months counts the   *)
(* months run, a list with no positive balance returns 0, and a return     *)
(* below Ceiling leaves no debt positive.                                  *)
(***************************************************************************)
C7_LeastMonths ==
    /\ [](pc = "pay" => AnyPositive(debts) /\ months < Ceiling)
    /\ [](pc = "done" =>
            /\ months = Ceiling \/ ~AnyPositive(debts)
            /\ ~AnyPositive(before) => months = 0
            /\ Last(history).months = months)
    /\ [][/\ pc = "accrue" => months' = months + 1
          /\ pc = "pay" => months' = months
          /\ pc \in {"start", "done"} => months' = 0]_vars

C7_Witness ==
    /\ pc = "done" /\ Len(debts) = 2 /\ months > 2 /\ months < Ceiling
    /\ AllPositive(before) /\ ~AnyPositive(debts)

(***************************************************************************)
(* C8.  In every month with a payment that is not negative the payments    *)
(* applied sum to at most monthly_payment, no balance is negative after    *)
(* the payments, and a debt that received its full balance is at zero      *)
(* after the payments and still at zero after the month's interest.        *)
(***************************************************************************)
C8_PaymentsWithinPayment ==
    monthly_payment >= 0 =>
        /\ pc = "accrue" => SumPaid <= monthly_payment
        /\ \A k \in DOMAIN debts : debts[k].balance >= 0
        /\ months > 0 \/ pc = "accrue" =>
              \A k \in DOMAIN debts :
                  paid[k] >= start_bal[k] => debts[k].balance = 0

(***************************************************************************)
(* C9.  The attack order is that of the list as passed: by descending rate *)
(* for avalanche, by ascending initial balance for snowball; it is the     *)
(* same in every month, and a debt is paid in a month only if every debt   *)
(* before it in that order is at zero after that month's payments.         *)
(***************************************************************************)
C9_FixedAttackOrder ==
    pc \in {"pay", "accrue", "done"} =>
        /\ Len(order) = Len(before)
        /\ \A i, j \in 1..Len(order) :
              i < j =>
                  /\ order[i] # order[j]
                  /\ method = "avalanche" =>
                        before[order[i]].rate >= before[order[j]].rate
                  /\ method = "snowball" =>
                        before[order[i]].balance <= before[order[j]].balance
                  /\ (pc = "accrue" /\ paid[order[j]] > 0)
                        => debts[order[i]].balance = 0

\* A later month of a snowball run in which the debt attacked first has
\* outgrown the one behind it.
C9_Witness ==
    /\ pc = "accrue" /\ method = "snowball" /\ months >= 1 /\ Len(order) = 2
    /\ start_bal[order[1]] > start_bal[order[2]]
    /\ start_bal[order[2]] > 0
    /\ paid[order[1]] > 0

(***************************************************************************)
(* C10.  For the same debts and the same payment, each strategy on its own *)
(* fresh list, avalanche returns at most the months snowball returns.      *)
(***************************************************************************)
C10_AvalancheNoSlower ==
    (Len(history) = 2 /\ ~history[2].alias)
        => history[MonthsOf("avalanche")].months
               <= history[MonthsOf("snowball")].months

(***************************************************************************)
(* C5 as stated.  The closed form of opportunity_cost gives the same value *)
(* as the reference accumulation value = 0; n times value = (value +       *)
(* amount) * (1 + r), with r = annual_rate/12 and n = years * 12.          *)
(***************************************************************************)
RECURSIVE Accumulate(_, _, _, _)
Accumulate(value, amount, r, n) ==
    IF n = 0 THEN value
    ELSE Accumulate(RMul(RAdd(value, amount), RAdd(FromInt(1), r)), amount, r, n - 1)

\* value = 0; n times value = value * (1 + r) + amount
RECURSIVE AccumulateAfter(_, _, _, _)
AccumulateAfter(value, amount, r, n) ==
    IF n = 0 THEN value
    ELSE AccumulateAfter(RAdd(RMul(value, RAdd(FromInt(1), r)), amount), amount, r, n - 1)

C5_ClosedFormIsAccumulation ==
    opc = "done" =>
        future_val = Accumulate(FromInt(0), FromInt(monthly_amount),
                                Rat(annual_rate, 12), opp_years * 12)

(***************************************************************************)
(* C5 amended.  The closed form of opportunity_cost is the accumulation    *)
(* that adds the amount after the month's growth, value = value * (1 + r)  *)
(* + amount; the reference accumulation is (1 + r) times it, so the two    *)
(* agree exactly when r = 0, n = 0 or the amount is 0.                     *)
(***************************************************************************)
C5_ClosedFormIsAccumulationAfter ==
    opc = "done" =>
        LET r == Rat(annual_rate, 12)
            n == opp_years * 12
            ref == Accumulate(FromInt(0), FromInt(monthly_amount), r, n)
        IN  /\ future_val = AccumulateAfter(FromInt(0), FromInt(monthly_amount), r, n)
            /\ RMul(future_val, RAdd(FromInt(1), r)) = ref
            /\ future_val = ref <=> (annual_rate = 0 \/ n = 0 \/ monthly_amount = 0)

C5_Witness ==
    /\ opc = "done" /\ annual_rate = 6 /\ opp_years = 1 /\ monthly_amount > 1
    /\ future_val.d > 1

(***************************************************************************)
(* C6.  The projection holds years + 1 balances when the loop ends, the    *)
(* first is the starting assets, each later one is (the one before +       *)
(* 12 * (income - expenses)) * (1 + real_rate), and with no surplus and a  *)
(* zero rate every balance is the starting assets.                         *)
(***************************************************************************)
\* b = (a + 12 * (income - expenses)) * (1 + real_rate), cross-multiplied.
Compounds(a, b) ==
    b.n * a.d * real_rate.d
        = (a.n + 12 * (income - expenses) * a.d) * (real_rate.d + real_rate.n) * b.d

C6_Projection ==
    ppc \in {"loop", "done"} =>
        /\ Len(wealth_projection) <= years + 1
        /\ ppc = "done" => Len(wealth_projection) = years + 1
        /\ wealth_projection # <<>> => wealth_projection[1] = FromInt(assets)
        /\ \A k \in 1..(Len(wealth_projection) - 1) :
              Compounds(wealth_projection[k], wealth_projection[k + 1])
        /\ (income = expenses /\ real_rate = FromInt(0)) =>
              \A k \in 1..Len(wealth_projection) :
                  wealth_projection[k] = FromInt(assets)

C6_Witness ==
    /\ ppc = "done" /\ years >= 2 /\ Len(wealth_projection) = years + 1
    /\ income # expenses /\ real_rate.n < 0 /\ assets > 0
    /\ wealth_projection[3] # wealth_projection[2]

====
